---- MODULE Spec2Model ----
(***************************************************************************)
(* Model of triton::bindings::python::initRegNamespace                     *)
(* (src/libtriton/bindings/python/namespaces/initRegNamespace.cpp).        *)
(*                                                                         *)
(* The function clears the REG dictionary and then, architecture after     *)
(* architecture, fills a fresh dictionary by expanding the architecture's  *)
(* .spec file through the REG_SPEC macros, wraps it in a class and stores  *)
(* the class in the REG dictionary under the architecture's label.         *)
(*                                                                         *)
(* The .spec files and the ID_REG_* enumerators are not part of the file;  *)
(* they are modelled as small tables and a per-family enumeration.         *)
(***************************************************************************)
EXTENDS Integers, Sequences, FiniteSets, TLC

VARIABLES
  COMPILE_RISCV,   \* build flag of the #ifdef at line 135
  specs,           \* content of the included .spec files, by file name
  registersDict,   \* the dictionary handed to initRegNamespace
  ctl,             \* position of initRegNamespace: "clear", "build", "returned"
  pc,              \* per architecture block: "new", "expand", "class", "setitem", "done"
  idx,             \* per architecture block: next entry of the .spec file to expand
  local,           \* per architecture block: the xxxRegistersDict local
  cls,             \* per architecture block: the xxxRegistersDictClass local
  run,             \* number of calls of initRegNamespace so far
  entry,           \* history: content of registersDict at the entry of each call
  order            \* history: labels in the order this call stored them

vars == <<COMPILE_RISCV, specs, registersDict, ctl, pc, idx, local, cls, run,
          entry, order>>

----------------------------------------------------------------------------
(* Bounds *)

MaxLen == 3      \* longest x86.spec table explored
MaxDupLen == 3   \* longest x86.spec table explored when names may repeat
MaxRuns == 2     \* calls of initRegNamespace in one behaviour

----------------------------------------------------------------------------
(* Python objects *)

EmptyDict == [n \in {} |-> 0]

xPyDict_New == EmptyDict

PyDict_ClearSkipped(d) == d

PyDict_Clear(d) == EmptyDict

xPyDict_SetItemString(d, key, value) ==
  [k \in (DOMAIN d) \cup {key} |-> IF k = key THEN value ELSE d[k]]

\* the Python integer of a 32-bit unsigned value: every enumerator lies in
\* 0..2^31-1, where the conversion keeps the value
PyLong_FromUint32Narrowed(x) == x % 2

PyLong_FromUint32(x) == x

xPyString_FromString(s) == s

xPyClass_New(bases, dict, name) == [name |-> name, dict |-> dict]

NoObject == [name |-> "", dict |-> EmptyDict]

----------------------------------------------------------------------------
(* Architectures, in the order of the blocks of initRegNamespace *)

MandatoryArchs == <<"X86", "X86_64", "AARCH64", "ARM32">>

RiscvArchs == <<"RV64", "RV32">>

AllArchs == MandatoryArchs \o RiscvArchs

Range(s) == {s[i] : i \in 1..Len(s)}

BlocksArm32Optional(riscv) ==
  IF riscv THEN AllArchs ELSE <<"X86", "X86_64", "AARCH64">>

Blocks(riscv) == IF riscv THEN AllArchs ELSE MandatoryArchs

LabelX86Reused(a) ==
  IF a = "X86_64" THEN xPyString_FromString("X86") ELSE xPyString_FromString(a)

Label(a) == xPyString_FromString(a)

SpecFile(a) ==
  CASE a = "X86"     -> "x86.spec"
    [] a = "X86_64"  -> "x86.spec"
    [] a = "AARCH64" -> "aarch64.spec"
    [] a = "ARM32"   -> "arm32.spec"
    [] a = "RV64"    -> "riscv64.spec"
    [] a = "RV32"    -> "riscv32.spec"

SpecFiles == {SpecFile(a) : a \in Range(AllArchs)}

----------------------------------------------------------------------------
(* Register enumerations (triton::arch::ID_REG_<FAMILY>_<NAME>) *)

X86Names == <<"AL", "AH", "FUTURE1", "RAX">>
AArch64Names == <<"X0", "TPIDR_EL0", "ACTLR_EL1">>
Arm32Names == <<"R0", "APSR">>
Riscv64Names == <<"X1", "F0", "MSTATUS">>
Riscv32Names == <<"X1", "MSTATUS">>

EnumNames(file) ==
  CASE file = "x86.spec"     -> X86Names
    [] file = "aarch64.spec" -> AArch64Names
    [] file = "arm32.spec"   -> Arm32Names
    [] file = "riscv64.spec" -> Riscv64Names
    [] file = "riscv32.spec" -> Riscv32Names

EnumBase(a) ==
  CASE a = "X86"     -> 0
    [] a = "X86_64"  -> 0
    [] a = "AARCH64" -> Len(X86Names)
    [] a = "ARM32"   -> Len(X86Names) + Len(AArch64Names)
    [] a = "RV64"    -> Len(X86Names) + Len(AArch64Names) + Len(Arm32Names)
    [] a = "RV32"    -> Len(X86Names) + Len(AArch64Names) + Len(Arm32Names)
                          + Len(Riscv64Names)

ID_REG(a, name) ==
  EnumBase(a) + (CHOOSE i \in 1..Len(EnumNames(SpecFile(a))) :
                   EnumNames(SpecFile(a))[i] = name)

----------------------------------------------------------------------------
(* .spec tables *)

X86Kinds == {"REG_SPEC", "REG_SPEC_NO_CAPSTONE"}

X86Entries(names) ==
  [name : names, kind : X86Kinds, X86_AVAIL : BOOLEAN]

\* x86.spec: one entry per enumerator, in enumeration order; at least one
\* entry exists in 64-bit mode only.
X86Tables ==
  UNION { { t \in [1..n -> X86Entries(Range(X86Names))] :
              /\ \A i \in 1..n : t[i].name = X86Names[i]
              /\ \E i \in 1..n : ~t[i].X86_AVAIL }
          : n \in 1..MaxLen }

\* malformed x86.spec: some canonical name is declared twice
X86DupTables ==
  UNION { { t \in [1..n -> X86Entries({"AL", "AH"})] :
              /\ \A i \in 1..n : t[i].kind = "REG_SPEC"
              /\ \E i, j \in 1..n : i # j /\ t[i].name = t[j].name }
          : n \in 2..MaxDupLen }

AArch64Table ==
  << [name |-> "X0", kind |-> "REG_SPEC"],
     [name |-> "TPIDR_EL0", kind |-> "REG_SPEC_NO_CAPSTONE"],
     [name |-> "ACTLR_EL1", kind |-> "SYS_REG_SPEC"] >>

Arm32Table ==
  << [name |-> "R0", kind |-> "REG_SPEC"],
     [name |-> "APSR", kind |-> "REG_SPEC_NO_CAPSTONE"] >>

Riscv64Table ==
  << [name |-> "X1", kind |-> "REG_SPEC"],
     [name |-> "F0", kind |-> "REG_SPEC_NO_CAPSTONE"],
     [name |-> "MSTATUS", kind |-> "SYS_REG_SPEC"] >>

Riscv32Table ==
  << [name |-> "X1", kind |-> "REG_SPEC"],
     [name |-> "MSTATUS", kind |-> "SYS_REG_SPEC"] >>

SpecSet(x86tables) ==
  { [f \in SpecFiles |->
       CASE f = "x86.spec"     -> t
         [] f = "aarch64.spec" -> AArch64Table
         [] f = "arm32.spec"   -> Arm32Table
         [] f = "riscv64.spec" -> Riscv64Table
         [] f = "riscv32.spec" -> Riscv32Table] : t \in x86tables }

ToyTable ==
  << [name |-> "AL", kind |-> "REG_SPEC", X86_AVAIL |-> TRUE],
     [name |-> "AH", kind |-> "REG_SPEC", X86_AVAIL |-> TRUE],
     [name |-> "FUTURE1", kind |-> "REG_SPEC", X86_AVAIL |-> FALSE] >>

----------------------------------------------------------------------------
(* Macro expansion *)

\* #define REG_SPEC_NO_CAPSTONE REG_SPEC / #define SYS_REG_SPEC REG_SPEC
MacroSysDropped(kind) == IF kind = "SYS_REG_SPEC" THEN "" ELSE "REG_SPEC"

MacroNoCapstoneDropped(kind) ==
  IF kind = "REG_SPEC_NO_CAPSTONE" THEN "" ELSE "REG_SPEC"

Macro(kind) == "REG_SPEC"

\* the if (X86_AVAIL) of the X86 block; the other blocks have no condition
AvailIgnored(a, e) == TRUE

AvailInBothX86(a, e) == IF a \in {"X86", "X86_64"} THEN e.X86_AVAIL ELSE TRUE

Avail(a, e) == IF a = "X86" THEN e.X86_AVAIL ELSE TRUE

REG_SPEC(a, d, e) ==
  IF Avail(a, e)
    THEN xPyDict_SetItemString(d, e.name, PyLong_FromUint32(ID_REG(a, e.name)))
    ELSE d

ExpandEntry(a, d, e) ==
  IF Macro(e.kind) = "REG_SPEC" THEN REG_SPEC(a, d, e) ELSE d

\* the #include of the .spec file has expanded every entry
IncludedEarly(a) == idx[a] >= Len(specs[SpecFile(a)])

Included(a) == idx[a] = Len(specs[SpecFile(a)]) + 1

----------------------------------------------------------------------------
(* Prior content of the dictionary handed to initRegNamespace *)

Seeds ==
  { EmptyDict,
    [k \in {"JUNK"} |-> xPyClass_New("", [n \in {"ZZ"} |-> 99], "JUNK")],
    [k \in {"X86", "RV64"} |-> xPyClass_New("", [n \in {"FUTURE1"} |-> 77], k)] }

Fresh == [a \in Range(AllArchs) |-> "new"]

InitWith(tables, seeds) ==
  /\ COMPILE_RISCV \in BOOLEAN
  /\ specs \in SpecSet(tables)
  /\ registersDict \in seeds
  /\ ctl = "clear"
  /\ pc = Fresh
  /\ idx = [a \in Range(AllArchs) |-> 1]
  /\ local = [a \in Range(AllArchs) |-> EmptyDict]
  /\ cls = [a \in Range(AllArchs) |-> NoObject]
  /\ run = 1
  /\ entry = <<registersDict>>
  /\ order = <<>>

Init == InitWith(X86Tables, Seeds)

InitDup == InitWith(X86DupTables, Seeds)

InitAnyOrder == InitWith({ToyTable}, Seeds)

----------------------------------------------------------------------------
(* initRegNamespace *)

\* line 79
Clear ==
  /\ ctl = "clear"
  /\ registersDict' = PyDict_Clear(registersDict)
  /\ ctl' = "build"
  /\ UNCHANGED <<COMPILE_RISCV, specs, pc, idx, local, cls, run, entry, order>>

\* PyObject* xxxRegistersDict = xPyDict_New();
New(a) ==
  /\ ctl = "build"
  /\ pc[a] = "new"
  /\ local' = [local EXCEPT ![a] = xPyDict_New]
  /\ idx' = [idx EXCEPT ![a] = 1]
  /\ pc' = [pc EXCEPT ![a] = "expand"]
  /\ UNCHANGED <<COMPILE_RISCV, specs, registersDict, ctl, cls, run, entry, order>>

\* one entry of #include "triton/xxx.spec"
Expand(a) ==
  /\ ctl = "build"
  /\ pc[a] = "expand"
  /\ ~Included(a)
  /\ local' = [local EXCEPT ![a] = ExpandEntry(a, @, specs[SpecFile(a)][idx[a]])]
  /\ idx' = [idx EXCEPT ![a] = @ + 1]
  /\ UNCHANGED <<COMPILE_RISCV, specs, registersDict, ctl, pc, cls, run, entry, order>>

\* PyObject* xxxRegistersDictClass = xPyClass_New(nullptr, xxxRegistersDict, ...);
ClassNew(a) ==
  /\ ctl = "build"
  /\ pc[a] = "expand"
  /\ Included(a)
  /\ cls' = [cls EXCEPT ![a] = xPyClass_New("", local[a], Label(a))]
  /\ pc' = [pc EXCEPT ![a] = "setitem"]
  /\ UNCHANGED <<COMPILE_RISCV, specs, registersDict, ctl, idx, local, run, entry, order>>

\* xPyDict_SetItemString(registersDict, "XXX", xxxRegistersDictClass);
SetItem(a) ==
  /\ ctl = "build"
  /\ pc[a] = "setitem"
  /\ registersDict' = xPyDict_SetItemString(registersDict, Label(a), cls[a])
  /\ pc' = [pc EXCEPT ![a] = "done"]
  /\ order' = Append(order, Label(a))
  /\ UNCHANGED <<COMPILE_RISCV, specs, ctl, idx, local, cls, run, entry>>

\* closing brace of initRegNamespace
Return ==
  /\ ctl = "build"
  /\ \A a \in Range(Blocks(COMPILE_RISCV)) : pc[a] = "done"
  /\ ctl' = "returned"
  /\ UNCHANGED <<COMPILE_RISCV, specs, registersDict, pc, idx, local, cls, run, entry, order>>

\* initRegNamespace is called again on the same dictionary
Reexport ==
  /\ ctl = "returned"
  /\ run < MaxRuns
  /\ run' = run + 1
  /\ entry' = Append(entry, registersDict)
  /\ order' = <<>>
  /\ ctl' = "clear"
  /\ pc' = Fresh
  /\ idx' = [a \in Range(AllArchs) |-> 1]
  /\ local' = [a \in Range(AllArchs) |-> EmptyDict]
  /\ cls' = [a \in Range(AllArchs) |-> NoObject]
  /\ UNCHANGED <<COMPILE_RISCV, specs, registersDict>>

\* the blocks are statements of one function: a block runs when every block
\* before it has finished
TurnUnordered(a) == a \in Range(Blocks(COMPILE_RISCV))

Turn(a) ==
  \E i \in 1..Len(Blocks(COMPILE_RISCV)) :
    /\ Blocks(COMPILE_RISCV)[i] = a
    /\ \A j \in 1..(i - 1) : pc[Blocks(COMPILE_RISCV)[j]] = "done"

Compiled(a) == a \in Range(Blocks(COMPILE_RISCV))

Next ==
  \/ Clear
  \/ \E a \in Range(AllArchs) : Turn(a) /\ New(a)
  \/ \E a \in Range(AllArchs) : Turn(a) /\ Expand(a)
  \/ \E a \in Range(AllArchs) : Turn(a) /\ ClassNew(a)
  \/ \E a \in Range(AllArchs) : Turn(a) /\ SetItem(a)
  \/ Return
  \/ Reexport

\* the same blocks, run in any order and interleaved step by step
NextAnyOrder ==
  \/ Clear
  \/ \E a \in Range(AllArchs) : Compiled(a) /\ New(a)
  \/ \E a \in Range(AllArchs) : Compiled(a) /\ Expand(a)
  \/ \E a \in Range(AllArchs) : Compiled(a) /\ ClassNew(a)
  \/ \E a \in Range(AllArchs) : Compiled(a) /\ SetItem(a)
  \/ Return

Spec == Init /\ [][Next]_vars

SpecDup == InitDup /\ [][Next]_vars

SpecAnyOrder == InitAnyOrder /\ [][NextAnyOrder]_vars

----------------------------------------------------------------------------
(* What the catalog is expected to hold, stated from the tables alone *)

\* availability of an entry in an architecture variant: the X86_AVAIL column
\* for the 32-bit variant, unconditional everywhere else
FlagFor(a, e) == IF a = "X86" THEN e.X86_AVAIL ELSE TRUE

TableOf(a) == specs[SpecFile(a)]

ExpectedNames(a) ==
  {TableOf(a)[i].name : i \in {j \in 1..Len(TableOf(a)) : FlagFor(a, TableOf(a)[j])}}

ExpectedClass(a) ==
  [name |-> a, dict |-> [n \in ExpectedNames(a) |-> ID_REG(a, n)]]

HasDuplicate(t) == \E i, j \in 1..Len(t) : i # j /\ t[i].name = t[j].name

MandatoryKeys == {"X86", "X86_64", "AARCH64", "ARM32"}

RiscvKeys == {"RV64", "RV32"}

BuiltKeys == IF COMPILE_RISCV THEN MandatoryKeys \cup RiscvKeys ELSE MandatoryKeys

----------------------------------------------------------------------------
(* Claims *)

\* C1: whatever the dictionary held on entry, when initRegNamespace returns
\* it holds exactly the labels of the blocks of this run, each mapped to the
\* class this run created, and nothing else; a second call in succession
\* returns with the content the dictionary had when that call was entered.
C1_IdempotentReset ==
  ctl = "returned" =>
    /\ DOMAIN registersDict = {Label(a) : a \in Range(Blocks(COMPILE_RISCV))}
    /\ \A a \in Range(Blocks(COMPILE_RISCV)) :
         /\ registersDict[Label(a)] = cls[a]
         /\ cls[a].dict = local[a]
    /\ \A k \in DOMAIN registersDict : k \in BuiltKeys
    /\ run > 1 => registersDict = entry[run]

C1_Witness ==
  /\ ctl = "returned"
  /\ run = 2
  /\ "JUNK" \in DOMAIN entry[1]
  /\ "JUNK" \notin DOMAIN registersDict
  /\ registersDict = entry[2]

\* C2: after export the X86 namespace is a strict subset of the X86_64
\* namespace: every X86 name is an X86_64 name with the same identifier and
\* X86_64 holds a name X86 lacks; both come from the one x86.spec table.
C2_X86StrictSubset ==
  ctl = "returned" =>
    LET x == registersDict["X86"].dict
        y == registersDict["X86_64"].dict
    IN /\ SpecFile("X86") = SpecFile("X86_64")
       /\ DOMAIN x \subseteq DOMAIN y
       /\ \A n \in DOMAIN x : x[n] = y[n]
       /\ \E n \in DOMAIN y : n \notin DOMAIN x

C2_Witness ==
  /\ ctl = "returned"
  /\ DOMAIN registersDict["X86"].dict = {"AL", "FUTURE1"}
  /\ DOMAIN registersDict["X86_64"].dict = {"AL", "AH", "FUTURE1"}

\* C3: after export, for every block and every entry of its table, the
\* entry's name is in the block's namespace exactly when the entry is
\* available in that variant, and then maps to the entry's identifier; the
\* toy table AL, AH, FUTURE1 (unavailable) gives exactly {AL: 1, AH: 2}.
C3_AvailabilityFilter ==
  ctl = "returned" =>
    /\ \A a \in Range(Blocks(COMPILE_RISCV)) :
         \A i \in 1..Len(TableOf(a)) :
           LET e == TableOf(a)[i]
               d == registersDict[a].dict
           IN /\ e.name \in DOMAIN d <=> FlagFor(a, e)
              /\ FlagFor(a, e) => d[e.name] = ID_REG(a, e.name)
    /\ specs["x86.spec"] = ToyTable =>
         registersDict["X86"].dict = [n \in {"AL", "AH"} |-> IF n = "AL" THEN 1 ELSE 2]

C3_Witness ==
  /\ ctl = "returned"
  /\ specs["x86.spec"] = ToyTable
  /\ "FUTURE1" \notin DOMAIN registersDict["X86"].dict
  /\ "FUTURE1" \in DOMAIN registersDict["X86_64"].dict
  /\ DOMAIN registersDict["X86"].dict = {"AL", "AH"}

\* C4: after export the keys are exactly X86, X86_64, AARCH64, ARM32 without
\* the RISC-V family and those plus RV64, RV32 with it; the four mandatory
\* namespaces have the content their tables give, whatever the flag.
C4_OptionalFamily ==
  ctl = "returned" =>
    /\ ~COMPILE_RISCV => DOMAIN registersDict = {"X86", "X86_64", "AARCH64", "ARM32"}
    /\ COMPILE_RISCV =>
         DOMAIN registersDict = {"X86", "X86_64", "AARCH64", "ARM32", "RV64", "RV32"}
    /\ \A k \in MandatoryKeys : registersDict[k] = ExpectedClass(k)

C4_Witness ==
  /\ ctl = "returned"
  /\ ~COMPILE_RISCV
  /\ "RV64" \in DOMAIN entry[1]
  /\ DOMAIN registersDict = MandatoryKeys

\* C5 as stated: once the clear has run, the dictionary never holds a
\* non-empty proper subset of the final catalog's keys.
C5_NeverPartial ==
  ctl # "clear" =>
    ~(/\ DOMAIN registersDict # {}
      /\ DOMAIN registersDict \subseteq BuiltKeys
      /\ DOMAIN registersDict # BuiltKeys)

\* C5 amended: once the clear has run, the dictionary holds exactly the
\* labels of the blocks finished so far, a prefix of the block order, and
\* when initRegNamespace has returned it holds all of them.
C5_PrefixThenComplete ==
  ctl # "clear" =>
    /\ \E k \in 0..Len(Blocks(COMPILE_RISCV)) :
         /\ DOMAIN registersDict = {Blocks(COMPILE_RISCV)[i] : i \in 1..k}
         /\ \A i \in 1..Len(Blocks(COMPILE_RISCV)) :
              pc[Blocks(COMPILE_RISCV)[i]] = "done" <=> i <= k
    /\ ctl = "returned" => DOMAIN registersDict = BuiltKeys

C5_Witness ==
  /\ ctl = "build"
  /\ DOMAIN registersDict = {"X86", "X86_64"}
  /\ pc["AARCH64"] = "expand"

C7_Injective ==
  ctl # "clear" =>
    \A k \in DOMAIN registersDict :
      LET d == registersDict[k].dict
      IN \A n, m \in DOMAIN d :
           /\ d[n] = ID_REG(k, n)
           /\ n # m => d[n] # d[m]

C7_Witness ==
  /\ ctl = "returned"
  /\ COMPILE_RISCV
  /\ Cardinality(DOMAIN registersDict["X86_64"].dict) = 3
  /\ Cardinality(DOMAIN registersDict["RV64"].dict) = 3

\* C8: when the blocks run in any order and interleaved, the dictionary
\* ends with the same keys and the same content as the tables give.
C8_OrderIndependent ==
  ctl = "returned" =>
    registersDict = [k \in BuiltKeys |-> ExpectedClass(k)]

C8_Witness ==
  /\ ctl = "returned"
  /\ COMPILE_RISCV
  /\ order = <<"RV32", "ARM32", "X86_64", "RV64", "X86", "AARCH64">>

\* C9: after export, an entry declared with SYS_REG_SPEC or
\* REG_SPEC_NO_CAPSTONE is in the one namespace of its architecture under the
\* same rule as a REG_SPEC entry, mapped to its identifier, and the
\* dictionary has no key besides the architecture labels.
C9_KindIrrelevant ==
  ctl = "returned" =>
    /\ DOMAIN registersDict \subseteq Range(AllArchs)
    /\ \A a \in DOMAIN registersDict :
         \A i \in 1..Len(TableOf(a)) :
           LET e == TableOf(a)[i]
           IN e.kind # "REG_SPEC" =>
                /\ FlagFor(a, e) <=> e.name \in DOMAIN registersDict[a].dict
                /\ FlagFor(a, e) => registersDict[a].dict[e.name] = ID_REG(a, e.name)

C9_Witness ==
  /\ ctl = "returned"
  /\ COMPILE_RISCV
  /\ registersDict["AARCH64"].dict["ACTLR_EL1"] = ID_REG("AARCH64", "ACTLR_EL1")
  /\ "TPIDR_EL0" \in DOMAIN registersDict["AARCH64"].dict
  /\ "MSTATUS" \in DOMAIN registersDict["RV32"].dict
  /\ \E i \in 1..Len(specs["x86.spec"]) :
       /\ specs["x86.spec"][i].kind = "REG_SPEC_NO_CAPSTONE"
       /\ specs["x86.spec"][i].name \in DOMAIN registersDict["X86"].dict

\* C10: once the clear has run, every architecture label present in the
\* dictionary maps to the complete namespace of that architecture.
C10_PresentIsComplete ==
  ctl # "clear" =>
    \A a \in Range(AllArchs) :
      a \in DOMAIN registersDict => registersDict[a] = ExpectedClass(a)

C10_Witness ==
  /\ ctl = "build"
  /\ DOMAIN registersDict = {"X86"}
  /\ registersDict["X86"].dict # EmptyDict
  /\ pc["X86_64"] = "expand"
  /\ idx["X86_64"] = 2

====
